---- MODULE Spec2Model ----
(***************************************************************************)
(* Model of the content-aggregation pipeline of SAC (part_002): the local  *)
(* drop walker (handleDrop / processFileEntry), the remote repository      *)
(* fetcher (GitHubInput.handleSubmit / fetchRepoContents / handleCancel),  *)
(* the shared React state they publish to, the processing timeout and the  *)
(* content editor.  JavaScript strings are sequences of one-character      *)
(* strings.                                                                *)
(***************************************************************************)
EXTENDS Integers, Sequences, FiniteSets, TLC

(* ------------------------------ strings -------------------------------- *)

UpperCaseLetters ==
    <<"A","B","C","D","E","F","G","H","I","J","K","L","M",
      "N","O","P","Q","R","S","T","U","V","W","X","Y","Z">>

LowerCaseLetters ==
    <<"a","b","c","d","e","f","g","h","i","j","k","l","m",
      "n","o","p","q","r","s","t","u","v","w","x","y","z">>

\* String.prototype.toLowerCase, one character
toLowerChar(c) ==
    IF \E i \in 1..26 : UpperCaseLetters[i] = c
    THEN LowerCaseLetters[CHOOSE i \in 1..26 : UpperCaseLetters[i] = c]
    ELSE c

\* String.prototype.toLowerCase
toLowerCase(s) == [i \in 1..Len(s) |-> toLowerChar(s[i])]

\* the regex class \s (and the characters String.prototype.trim removes)
IsWhiteSpace(c) == c \in {" ", "\n", "\t", "\r"}

\* line terminators: not matched by the regex '.', and delimit ^ and $ under /m
IsLineTerminator(c) == c \in {"\n", "\r"}

\* String.prototype.trim
trim(s) ==
    LET n == Len(s)
        nonWhite == {i \in 1..n : ~IsWhiteSpace(s[i])}
    IN  IF nonWhite = {} THEN <<>>
        ELSE SubSeq(s, CHOOSE i \in nonWhite : \A j \in nonWhite : i <= j,
                       CHOOSE i \in nonWhite : \A j \in nonWhite : j <= i)

\* String.prototype.split(sep) for a one-character separator: the k-th
\* piece lies between the (k-1)-th and the k-th occurrence of sep
split(s, sep) ==
    LET seps == {i \in 1..Len(s) : s[i] = sep}
        nth(k) == IF k = 0 THEN 0
                  ELSE IF k > Cardinality(seps) THEN Len(s) + 1
                  ELSE CHOOSE i \in seps : Cardinality({j \in seps : j < i}) = k - 1
    IN  [k \in 1..(Cardinality(seps) + 1) |-> SubSeq(s, nth(k - 1) + 1, nth(k) - 1)]

\* Array.prototype.filter(Boolean) on an array of strings: drops the empty ones
filterBoolean(arr) == SelectSeq(arr, LAMBDA x : x # <<>>)

Range(f) == {f[i] : i \in DOMAIN f}

\* s.startsWith(p, at i)
StartsWithAt(s, i, p) ==
    /\ i >= 1
    /\ i + Len(p) - 1 <= Len(s)
    /\ \A k \in 1..Len(p) : s[i + k - 1] = p[k]

(* --------------------------- token estimator --------------------------- *)

\* estimateTokenCount rounding down
estimateTokenCountFloor(text) == Len(text) \div 4

\* Math.ceil(text.length / 4)
estimateTokenCount(text) == (Len(text) + 3) \div 4

(* ------------------------------- matcher ------------------------------- *)

DEFAULT_SKIP_PATTERNS ==
    << <<"n", "o", "d", "e", "_", "m", "o", "d", "u", "l", "e", "s">>, <<"v", "e", "n", "d", "o", "r">>, <<"d", "i", "s", "t">>, <<"b", "u", "i", "l", "d">>, <<".", "g", "i", "t">>,
       <<"_", "_", "p", "y", "c", "a", "c", "h", "e", "_", "_">>, <<"v", "e", "n", "v">>, <<".", "e", "n", "v">>, <<"c", "o", "v", "e", "r", "a", "g", "e">>, <<"t", "m", "p">> >>

RegexSpecialChars == {".", "+", "^", "$", "{", "}", "(", ")", "|", "[", "]", "\\"}

\* pattern.replace(/[.+^${}()|[\]\\]/g, '\\$&').replace(/\*/g, '.*').replace(/\?/g, '.')
RECURSIVE globToRegexSource(_)
globToRegexSource(p) ==
    IF p = <<>> THEN <<>>
    ELSE LET c == Head(p)
             r == globToRegexSource(Tail(p))
         IN  IF c \in RegexSpecialChars THEN <<"\\", c>> \o r
             ELSE IF c = "*" THEN <<".", "*">> \o r
             ELSE IF c = "?" THEN <<".">> \o r
             ELSE <<c>> \o r

\* new RegExp(source), for the sources globToRegexSource produces: an escaped
\* character is a literal, '.*' is any run, '.' is any one character
RECURSIVE compileRegex(_)
compileRegex(src) ==
    IF src = <<>> THEN <<>>
    ELSE IF Head(src) = "\\" /\ Len(src) >= 2
         THEN <<[k |-> "lit", c |-> src[2]]>> \o compileRegex(SubSeq(src, 3, Len(src)))
    ELSE IF Head(src) = "." /\ Len(src) >= 2 /\ src[2] = "*"
         THEN <<[k |-> "run", c |-> "."]>> \o compileRegex(SubSeq(src, 3, Len(src)))
    ELSE IF Head(src) = "."
         THEN <<[k |-> "any", c |-> "."]>> \o compileRegex(Tail(src))
    ELSE <<[k |-> "lit", c |-> Head(src)]>> \o compileRegex(Tail(src))

RECURSIVE matchAt(_, _, _, _)
matchAt(re, i, s, j) ==
    IF i > Len(re) THEN TRUE
    ELSE IF re[i].k = "lit"
         THEN j <= Len(s) /\ s[j] = re[i].c /\ matchAt(re, i + 1, s, j + 1)
    ELSE IF re[i].k = "any"
         THEN j <= Len(s) /\ ~IsLineTerminator(s[j]) /\ matchAt(re, i + 1, s, j + 1)
    ELSE \/ matchAt(re, i + 1, s, j)
         \/ (j <= Len(s) /\ ~IsLineTerminator(s[j]) /\ matchAt(re, i, s, j + 1))

\* RegExp.prototype.test without anchors: a match starting anywhere
regexTest(re, s) == \E start \in 1..(Len(s) + 1) : matchAt(re, 1, s, start)

\* allPatterns keeping the patterns that are empty after trimming
allPatternsUnfiltered(excludePatterns) ==
    [i \in 1..(Len(DEFAULT_SKIP_PATTERNS) + Len(excludePatterns)) |->
        trim(toLowerCase((DEFAULT_SKIP_PATTERNS \o excludePatterns)[i]))]

\* the pattern list both shouldSkipEntry copies build
allPatterns(excludePatterns) ==
    filterBoolean([i \in 1..(Len(DEFAULT_SKIP_PATTERNS) + Len(excludePatterns)) |->
        trim(toLowerCase((DEFAULT_SKIP_PATTERNS \o excludePatterns)[i]))])

\* shouldSkipEntry matching the path as it is written
shouldSkipEntryCaseSensitive(path, excludePatterns) ==
    LET pats == allPatterns(excludePatterns)
    IN  \E i \in 1..Len(pats) :
            regexTest(compileRegex(globToRegexSource(pats[i])), path)

shouldSkipEntry(path, excludePatterns) ==
    LET normalizedPath == toLowerCase(path)
        pats == allPatterns(excludePatterns)
    IN  \E i \in 1..Len(pats) :
            regexTest(compileRegex(globToRegexSource(pats[i])), normalizedPath)

\* isAllowedFileType with the test for an empty list turned around
isAllowedFileTypeEmptyTestInverted(filename, allowedFormats) ==
    LET parts == split(filename, ".")
        extension == <<".">> \o toLowerCase(parts[Len(parts)])
        lines == split(allowedFormats, "\n")
        allowedTypes == filterBoolean([i \in 1..Len(lines) |-> toLowerCase(trim(lines[i]))])
    IN  IF Len(allowedTypes) # 0 THEN TRUE
        ELSE extension \in Range(allowedTypes)

isAllowedFileType(filename, allowedFormats) ==
    LET parts == split(filename, ".")
        extension == <<".">> \o toLowerCase(parts[Len(parts)])
        lines == split(allowedFormats, "\n")
        allowedTypes == filterBoolean([i \in 1..Len(lines) |-> toLowerCase(trim(lines[i]))])
    IN  IF Len(allowedTypes) = 0 THEN TRUE
        ELSE extension \in Range(allowedTypes)

(* ------------------------- content transformer ------------------------- *)

\* first index >= i that is past the end or holds a line terminator
RECURSIVE EndOfLine(_, _)
EndOfLine(s, i) ==
    IF i > Len(s) \/ IsLineTerminator(s[i]) THEN i ELSE EndOfLine(s, i + 1)

\* first index >= i that is past the end or holds a non-white character
RECURSIVE EndOfWhite(_, _)
EndOfWhite(s, i) ==
    IF i > Len(s) \/ ~IsWhiteSpace(s[i]) THEN i ELSE EndOfWhite(s, i + 1)

\* the position where ^ matches under /m
AtLineStart(s, p) == p = 1 \/ (p - 1 <= Len(s) /\ IsLineTerminator(s[p - 1]))

\* .replace(/\/\*[\s\S]*?\*\/|([^:]|^)\/\/.*$/gm, '$1')
RECURSIVE removeCStyleComments(_, _)
removeCStyleComments(s, p) ==
    IF p > Len(s) THEN <<>>
    ELSE LET closers == {q \in (p + 2)..Len(s) : StartsWithAt(s, q, <<"*", "/">>)}
         IN  IF StartsWithAt(s, p, <<"/", "*">>) /\ closers # {}
             THEN removeCStyleComments(s,
                      (CHOOSE q \in closers : \A r \in closers : q <= r) + 2)
             ELSE IF s[p] # ":" /\ StartsWithAt(s, p + 1, <<"/", "/">>)
             THEN <<s[p]>> \o removeCStyleComments(s, EndOfLine(s, p + 3))
             ELSE IF AtLineStart(s, p) /\ StartsWithAt(s, p, <<"/", "/">>)
             THEN removeCStyleComments(s, EndOfLine(s, p + 2))
             ELSE <<s[p]>> \o removeCStyleComments(s, p + 1)

\* .replace(/^\s*#.*$/gm, '') and .replace(/^\s*--.*$/gm, ''), marker = # or --
RECURSIVE removeLineComments(_, _, _)
removeLineComments(s, p, marker) ==
    IF p > Len(s) THEN <<>>
    ELSE IF AtLineStart(s, p) /\ StartsWithAt(s, EndOfWhite(s, p), marker)
         THEN removeLineComments(s, EndOfLine(s, EndOfWhite(s, p) + Len(marker)), marker)
    ELSE <<s[p]>> \o removeLineComments(s, p + 1, marker)

\* .replace(/^\s*\n/gm, '')
RECURSIVE removeEmptyLines(_, _)
removeEmptyLines(s, p) ==
    IF p > Len(s) THEN <<>>
    ELSE LET newlines == {q \in p..(EndOfWhite(s, p) - 1) : s[q] = "\n"}
         IN  IF AtLineStart(s, p) /\ newlines # {}
             THEN removeEmptyLines(s,
                      (CHOOSE q \in newlines : \A r \in newlines : r <= q) + 1)
             ELSE <<s[p]>> \o removeEmptyLines(s, p + 1)

\* .replace(/\s+/g, ' ')
RECURSIVE collapseWhiteSpace(_, _)
collapseWhiteSpace(s, p) ==
    IF p > Len(s) THEN <<>>
    ELSE IF IsWhiteSpace(s[p])
         THEN <<" ">> \o collapseWhiteSpace(s, EndOfWhite(s, p))
    ELSE <<s[p]>> \o collapseWhiteSpace(s, p + 1)

\* .replace(/\n/g, '')
removeNewlines(s) == SelectSeq(s, LAMBDA c : c # "\n")

\* the removeComments chain of processFileEntry / processFileContent
removeComments(text) ==
    trim(removeEmptyLines(
           removeLineComments(
             removeLineComments(removeCStyleComments(text, 1), 1, <<"#">>),
             1, <<"-", "-">>),
           1))

\* the minifyCode chain
minifyCode(text) == trim(removeNewlines(collapseWhiteSpace(text, 1)))

\* GitHubInput.processFileContent; processFileEntry inlines the same chain
processFileContent(text, cfg) ==
    LET stripped == IF cfg.removeComments THEN removeComments(text) ELSE text
    IN  IF cfg.minifyCode THEN minifyCode(stripped) ELSE stripped

(* ------------------------------ fragments ------------------------------ *)

FileHeader == <<"\n", "\n", "/", "/", " ", "F", "i", "l", "e", ":", " ">>

\* entryPath.replace(/^\/+/, '').replace(/\/+/g, '/')
RECURSIVE collapseSlashes(_)
collapseSlashes(s) ==
    IF s = <<>> THEN <<>>
    ELSE IF Head(s) = "/" /\ Len(s) >= 2 /\ s[2] = "/" THEN collapseSlashes(Tail(s))
    ELSE <<Head(s)>> \o collapseSlashes(Tail(s))

RECURSIVE stripLeadingSlashes(_)
stripLeadingSlashes(s) ==
    IF s # <<>> /\ Head(s) = "/" THEN stripLeadingSlashes(Tail(s)) ELSE s

cleanPath(entryPath) == collapseSlashes(stripLeadingSlashes(entryPath))

\* `\n\n// File: ${path}\n${content}`
fragment(path, processedContent) == FileHeader \o path \o <<"\n">> \o processedContent

(* ------------------------------- settings ------------------------------ *)

DEFAULT_ACCEPTED_TYPES ==
    <<".", "j", "s", "\n", ".", "j", "s", "x", "\n", ".", "t", "s", "\n", ".", "t", "s", "x", "\n", ".", "v", "u", "e", "\n", ".", "s", "v", "e", "l", "t", "e", "\n", ".", "h", "t", "m", "l", "\n", ".", "c", "s", "s", "\n", ".", "s", "c", "s", "s", "\n", ".", "p", "y", "\n", ".", "r", "b", "\n", ".", "g", "o", "\n", ".", "r", "s", "\n", ".", "j", "a", "v", "a", "\n", ".", "k", "t", "\n", ".", "s", "w", "i", "f", "t", "\n", ".", "c", "p", "p", "\n", ".", "c", "\n", ".", "c", "s", "\n", ".", "s", "q", "l", "\n", ".", "j", "s", "o", "n", "\n", ".", "y", "a", "m", "l", "\n", ".", "t", "o", "m", "l", "\n", ".", "e", "n", "v", "\n", ".", "m", "d", "\n", ".", "t", "x", "t", "\n", ".", "c", "s", "v">>

DEFAULT_TOKEN_LIMIT == 1500

DEFAULT_SETTINGS ==
    [tokenLimit |-> DEFAULT_TOKEN_LIMIT,
     excludePatterns |-> <<>>,
     removeComments |-> FALSE,
     minifyCode |-> FALSE,
     allowedFormats |-> DEFAULT_ACCEPTED_TYPES]

\* 10 * 1024 * 1024
MAX_FILE_SIZE == 10485760

\* largest positive token limit the user enters
MaxTokenLimit == 3

\* largest number of items in one drop
MaxDrop == 2

\* exclude pattern lists and allow lists found in local storage
SavedExcludePatterns == { <<>>, << <<" ">>, <<"L", "I", "B">> >> }

SavedAllowedFormats == { <<>>, <<".", "P", "Y", " ", "\n", ".", "m", "a", "k", "e", "f", "i", "l", "e">> }

\* settings found in local storage when the component mounts; the transform
\* flags are varied with the default filters only
SavedSettings ==
    {s \in [tokenLimit : {-1} \cup 1..MaxTokenLimit,
            excludePatterns : SavedExcludePatterns,
            removeComments : BOOLEAN,
            minifyCode : BOOLEAN,
            allowedFormats : SavedAllowedFormats] :
        (s.removeComments \/ s.minifyCode) =>
            (s.excludePatterns = <<>> /\ s.allowedFormats = <<>>)}

\* values parseInt hands to handleTokenLimitChange (0 stands for 0 and NaN)
TokenLimitInputs == 0..MaxTokenLimit

(* ----------------------- the dropped file system ----------------------- *)

\* FileSystemEntry objects the user can drop.  pages are the successive
\* results of FileSystemDirectoryReader.readEntries (ids of the children),
\* fileOk / textOk tell whether entry.file() and file.text() resolve, and
\* readerOk whether readEntries succeeds.  The text of the oversized file
\* stands for content that is MAX_FILE_SIZE + 1 bytes long.
FileEntry(name, text) ==
    [name |-> name, isFile |-> TRUE, isDirectory |-> FALSE, size |-> Len(text),
     text |-> text, pages |-> <<>>, fileOk |-> TRUE, textOk |-> TRUE, readerOk |-> TRUE]

DirectoryEntry(name, pages) ==
    [name |-> name, isFile |-> FALSE, isDirectory |-> TRUE, size |-> 0,
     text |-> <<>>, pages |-> pages, fileOk |-> TRUE, textOk |-> TRUE, readerOk |-> TRUE]

Entries ==
    << FileEntry(<<"a", ".", "p", "y">>, <<"x", "=", "1", ";", "y", "=", "2", ";">>),
       DirectoryEntry(<<"b">>, << <<3, 12>>, <<4>> >>),
       DirectoryEntry(<<"n", "o", "d", "e", "_", "m", "o", "d", "u", "l", "e", "s">>, << <<5>> >>),
       FileEntry(<<"d", ".", "t", "s">>, <<"l", "e", "t", " ", " ", "d", ";", "\n">>),
       FileEntry(<<"c", ".", "p", "y">>, <<"c", "=", "0">>),
       [FileEntry(<<"b", "i", "g", ".", "p", "y">>, <<"#", "!", "h", "u", "g", "e">>) EXCEPT !.size = MAX_FILE_SIZE + 1],
       DirectoryEntry(<<"l", "i", "b">>, << <<8, 9>>, <<10, 11>> >>),
       FileEntry(<<"M", ".", "P", "Y">>, <<"/", "/", " ", "m", "\n", "m", "(", "1", ")">>),
       [FileEntry(<<"u", ".", "p", "y">>, <<"u">>) EXCEPT !.textOk = FALSE],
       [FileEntry(<<"h", ".", "p", "y">>, <<"h", "u", "g", "e">>) EXCEPT !.size = MAX_FILE_SIZE + 1],
       FileEntry(<<"n", ".", "p", "y">>, <<"/", "*", "n", "*", "/", "/", "/", " ", "3">>),
       [DirectoryEntry(<<"e">>, << <<13>> >>) EXCEPT !.readerOk = FALSE],
       FileEntry(<<"f", ".", "p", "y">>, <<"f">>) >>

\* entries that can be dropped as roots
Roots == {1, 2, 6, 7}

RECURSIVE flatten(_)
flatten(pages) ==
    IF pages = <<>> THEN <<>> ELSE Head(pages) \o flatten(Tail(pages))

\* sequences of distinct roots, at most n long
RECURSIVE DropsOfLength(_)
DropsOfLength(n) ==
    IF n = 0 THEN {<<>>}
    ELSE {Append(d, r) : d \in DropsOfLength(n - 1), r \in Roots} 

Drops ==
    UNION {{d \in DropsOfLength(n) : \A i, j \in 1..n : i # j => d[i] # d[j]} : n \in 0..MaxDrop}

(* ---------------------- the remote repository host ---------------------- *)

Blob(path, text) == [path |-> path, type |-> "blob", text |-> text]
Tree(path) == [path |-> path, type |-> "tree", text |-> <<>>]

\* the recursive tree the host lists for repository o/r (any branch)
RepoTree ==
    << Blob(<<"a", ".", "p", "y">>, <<"x", "=", "1", ";", "y", "=", "2", ";">>),
       Tree(<<"b">>),
       Blob(<<"b", "/", "n", "o", "d", "e", "_", "m", "o", "d", "u", "l", "e", "s", "/", "c", ".", "p", "y">>, <<"c", "=", "0">>),
       Blob(<<"b", "/", "v", ".", "1", "/", "M", "a", "k", "e", "f", "i", "l", "e">>, <<"a", "l", "l", ":", " ", " ", "d", "\n">>),
       Tree(<<"l", "i", "b">>),
       Blob(<<"l", "i", "b", "/", "M", ".", "P", "Y">>, <<"/", "/", " ", "m", "\n", "m", "(", "1", ")">>) >>

\* does the host know owner/repo
RepoExists(owner, repo) == owner = <<"o">> /\ repo = <<"r">>

\* texts typed into the URL field
UrlInputs ==
    { <<"h", "t", "t", "p", "s", ":", "/", "/", "g", "i", "t", "h", "u", "b", ".", "c", "o", "m", "/", "o", "/", "r">>,
      <<"h", "t", "t", "p", "s", ":", "/", "/", "g", "i", "t", "h", "u", "b", ".", "c", "o", "m", "/", "o", "/", "r", "/", "t", "r", "e", "e", "/", "d", "e", "v", "/", "l", "i", "b">>,
      <<"h", "t", "t", "p", "s", ":", "/", "/", "g", "i", "t", "h", "u", "b", ".", "c", "o", "m", "/", "o", "/", "x">>,
      <<"g", "i", "t", "h", "u", "b", ".", "c", "o", "m", "/", "o", "/", "r">> }

(* ------------------------------- the state ----------------------------- *)

VARIABLES
    \* React state of SAC
    content, fileCount, totalSize, currentTokens, processing, generating, error,
    settings, tokenLimit,
    \* the executing handleDrop call: its position, the values its closure
    \* captured at the render that created it, and its local variables
    lpc, closure, entries, idx, newContent, newFileCount, stack,
    \* what that call did: entries processFileEntry was called on, files whose
    \* text was read, directories whose reader was created, paths of the
    \* fragments it produced, how it ended
    visited, readFiles, enumerated, accepted, dropOutcome,
    \* GitHubInput: form state, the controller reference, the signal of the
    \* executing fetchRepoContents call, its position and local variables
    \* (run.received lists the files whose content arrived and was decoded,
    \* run.repoStatus is the status of the metadata response),
    \* how it ended, the result object it returned and the error it threw
    rpc, formState, abortControllerRef, aborted, run, fetchOutcome, result, thrown

uiVars == <<content, fileCount, totalSize, currentTokens, processing, generating, error>>
cfgVars == <<settings, tokenLimit>>
dropVars == <<lpc, closure, entries, idx, newContent, newFileCount, stack>>
dropLog == <<visited, readFiles, enumerated, accepted, dropOutcome>>
remoteVars == <<rpc, formState, abortControllerRef, aborted, run, fetchOutcome, result, thrown>>
vars == <<uiVars, cfgVars, dropVars, dropLog, remoteVars>>

Null == "null"

NoClosure == [settings |-> DEFAULT_SETTINGS, tokenLimit |-> DEFAULT_TOKEN_LIMIT, currentTokens |-> 0]

NoProgress == [processed |-> 0, total |-> 0]

\* the default value of handleGitHubProcess's result parameter
NoResult == [content |-> <<>>, fileCount |-> 0, totalSize |-> 0, tokenCount |-> 0]

\* no response to the metadata request yet
NoStatus == -1

NoForm == [url |-> <<>>, error |-> <<>>, progress |-> NoProgress]

NoRun ==
    [settings |-> DEFAULT_SETTINGS, owner |-> <<>>, repo |-> <<>>, branch |-> <<>>,
     basePath |-> <<>>, targetBranch |-> <<>>,
     files |-> <<>>, i |-> 0, combinedContent |-> <<>>, processedFiles |-> 0,
     totalSize |-> 0, currentTokens |-> 0, received |-> <<>>,
     repoStatus |-> NoStatus]

\* error messages
ERR_NO_FILES_DROPPED == "No files dropped"
ERR_NO_VALID_FILES == "No valid files found or all files exceeded token limit"
\* `Token limit (${tokenLimit}) reached. Some files were skipped.`, the number left out
ERR_TOKEN_LIMIT == "Token limit reached. Some files were skipped."
ERR_TIMEOUT == "Processing timed out. Please try again with fewer files."

Init ==
    /\ content = <<>> /\ fileCount = 0 /\ totalSize = 0 /\ currentTokens = 0
    /\ processing = FALSE /\ generating = FALSE /\ error = Null
    /\ settings \in SavedSettings \cup {DEFAULT_SETTINGS}
    /\ tokenLimit = settings.tokenLimit
    /\ lpc = "idle" /\ closure = NoClosure /\ entries = <<>> /\ idx = 0
    /\ newContent = <<>> /\ newFileCount = 0 /\ stack = <<>>
    /\ visited = {} /\ readFiles = {} /\ enumerated = {} /\ accepted = <<>>
    /\ dropOutcome = "none"
    /\ rpc = "idle"
    /\ formState = NoForm
    /\ abortControllerRef = Null /\ aborted = FALSE
    /\ run = NoRun /\ fetchOutcome = "none" /\ result = NoResult /\ thrown = Null

\* the drop zone, the GitHub form and the settings panel are rendered only
\* under  !generating && !processing && !content
InputsRendered == ~generating /\ ~processing /\ content = <<>>

\* the ContentEditor is rendered only under  !generating && !processing && content
EditorRendered == ~generating /\ ~processing /\ content # <<>>

\* no handleDrop or fetchRepoContents call is still executing
NoCallExecuting == lpc = "idle" /\ rpc = "idle"

\* the locals of a handleDrop call that has returned no longer exist, and the
\* record of what it did is dropped with them at the user's next action
ForgetDrop ==
    IF lpc = "idle"
    THEN /\ closure' = NoClosure /\ entries' = <<>> /\ idx' = 0
         /\ newContent' = <<>> /\ newFileCount' = 0 /\ stack' = <<>>
         /\ visited' = {} /\ readFiles' = {} /\ enumerated' = {} /\ accepted' = <<>>
         /\ dropOutcome' = "none"
         /\ UNCHANGED lpc
    ELSE UNCHANGED <<dropVars, dropLog>>

\* the same for a fetchRepoContents call that has returned or thrown
ForgetFetch ==
    IF rpc = "idle"
    THEN /\ run' = NoRun /\ fetchOutcome' = "none" /\ result' = NoResult
         /\ thrown' = Null /\ aborted' = FALSE
    ELSE UNCHANGED <<run, fetchOutcome, result, thrown, aborted>>

\* GitHubInput is rendered only while InputsRendered holds and is defined
\* inside SAC, so the instance the user sees after a call has ended is a new
\* mount: useState and useRef start again from their initial values.  While a
\* call executes, formState and abortControllerRef are those of the instance
\* whose handlers are executing.
Remount ==
    IF rpc = "idle"
    THEN formState' = NoForm /\ abortControllerRef' = Null
    ELSE UNCHANGED <<formState, abortControllerRef>>

(* ------------------------------- settings ------------------------------ *)

handleTokenLimitChange ==
    /\ InputsRendered /\ NoCallExecuting
    /\ \E value \in TokenLimitInputs :
          LET newLimit == IF value = 0 THEN -1 ELSE value
          IN  /\ tokenLimit' = newLimit
              /\ settings' = [settings EXCEPT !.tokenLimit = newLimit]
    /\ ForgetDrop /\ ForgetFetch /\ Remount
    /\ UNCHANGED <<uiVars, rpc>>

handleResetSettings ==
    /\ InputsRendered /\ NoCallExecuting
    /\ settings' = DEFAULT_SETTINGS
    /\ tokenLimit' = DEFAULT_SETTINGS.tokenLimit
    /\ ForgetDrop /\ ForgetFetch /\ Remount
    /\ UNCHANGED <<uiVars, rpc>>

(* ---------------------------- the local walker -------------------------- *)

\* path ? `${path}/${entry.name}` : entry.name
entryPathOf(path, name) == IF path # <<>> THEN path \o <<"/">> \o name ELSE name

NoFragment == [content |-> <<>>, read |-> FALSE, added |-> 0]

\* the size check with the comparison turned around
fileTooLargeComparisonInverted(size) == size < MAX_FILE_SIZE

\* the size check of processFileEntry
fileTooLarge(size) == size > MAX_FILE_SIZE

\* processFile treating a file whose text cannot be read as an empty file
processFileReadErrorAsEmpty(e, entryPath, cfg) ==
    IF ~e.fileOk THEN NoFragment
    ELSE IF fileTooLarge(e.size) THEN NoFragment
    ELSE IF ~isAllowedFileType(e.name, cfg.allowedFormats) THEN NoFragment
    ELSE [content |-> fragment(cleanPath(entryPath),
                               IF e.textOk THEN processFileContent(e.text, cfg) ELSE <<>>),
          read |-> TRUE, added |-> IF e.textOk THEN e.size ELSE 0]

\* the isFile branch of processFileEntry: the text it returns, whether
\* file.text() was called, and the amount passed to setTotalSize
processFile(e, entryPath, cfg) ==
    IF ~e.fileOk THEN NoFragment
    ELSE IF fileTooLarge(e.size) THEN NoFragment
    ELSE IF ~isAllowedFileType(e.name, cfg.allowedFormats) THEN NoFragment
    ELSE IF ~e.textOk THEN [NoFragment EXCEPT !.read = TRUE]
    ELSE [content |-> fragment(cleanPath(entryPath), processFileContent(e.text, cfg)),
          read |-> TRUE, added |-> e.size]

\* the token check of the directory loop of processFileEntry, on the values
\* the closure captured
directoryLimitReached(cl) ==
    cl.settings.tokenLimit > 0 /\ cl.currentTokens >= cl.settings.tokenLimit

\* the token check of handleDrop, before each root entry and after the loop
dropLimitReached(cl) == cl.currentTokens >= cl.tokenLimit

\* Deliver putting the returned text in front of what was collected so far
DeliverPrepending(c, stk) ==
    IF stk = <<>>
    THEN /\ newContent' = IF c # <<>> THEN c \o newContent ELSE newContent
         /\ newFileCount' = IF c # <<>> THEN newFileCount + 1 ELSE newFileCount
         /\ idx' = idx + 1
         /\ stack' = <<>>
         /\ lpc' = "loop"
    ELSE LET n == Len(stk)
             f == stk[n]
         IN  /\ stack' = [stk EXCEPT ![n] =
                    [f EXCEPT !.combinedContent = c \o f.combinedContent,
                              !.i = IF directoryLimitReached(closure)
                                    THEN Len(f.entries) + 1 ELSE f.i + 1]]
             /\ lpc' = "walk"
             /\ UNCHANGED <<newContent, newFileCount, idx>>

\* the awaited processFileEntry call returns text c to the frames stk that
\* wait for it: the directory loop on top of stk, or handleDrop's loop
Deliver(c, stk) ==
    IF stk = <<>>
    THEN /\ newContent' = IF c # <<>> THEN newContent \o c ELSE newContent
         /\ newFileCount' = IF c # <<>> THEN newFileCount + 1 ELSE newFileCount
         /\ idx' = idx + 1
         /\ stack' = <<>>
         /\ lpc' = "loop"
    ELSE LET n == Len(stk)
             f == stk[n]
         IN  /\ stack' = [stk EXCEPT ![n] =
                    [f EXCEPT !.combinedContent = f.combinedContent \o c,
                              !.i = IF directoryLimitReached(closure)
                                    THEN Len(f.entries) + 1 ELSE f.i + 1]]
             /\ lpc' = "walk"
             /\ UNCHANGED <<newContent, newFileCount, idx>>

\* the exclude check comparing the whole path with each pattern instead of
\* searching the path for it
entrySkippedWholePath(entryPath, cfg) ==
    toLowerCase(entryPath) \in Range(allPatterns(cfg.excludePatterns))

\* the exclude check at the top of processFileEntry
entrySkipped(entryPath, cfg) == shouldSkipEntry(entryPath, cfg.excludePatterns)

\* ProcessEntry taking the first page the reader returns for all children
ProcessEntryFirstPageOnly(id, path, stk) ==
    LET e == Entries[id]
        entryPath == entryPathOf(path, e.name)
    IN  /\ visited' = visited \cup {id}
        /\ IF entrySkipped(entryPath, closure.settings)
           THEN /\ Deliver(<<>>, stk)
                /\ UNCHANGED <<totalSize, readFiles, enumerated, accepted>>
           ELSE IF e.isFile
           THEN LET r == processFile(e, entryPath, closure.settings)
                IN  /\ Deliver(r.content, stk)
                    /\ totalSize' = totalSize + r.added
                    /\ readFiles' = IF r.read THEN readFiles \cup {id} ELSE readFiles
                    /\ accepted' = IF r.content # <<>>
                                   THEN Append(accepted, cleanPath(entryPath))
                                   ELSE accepted
                    /\ UNCHANGED enumerated
           ELSE /\ enumerated' = enumerated \cup {id}
                /\ IF e.readerOk
                   THEN /\ stack' = Append(stk, [entryPath |-> entryPath,
                                                 entries |-> IF e.pages = <<>> THEN <<>>
                                                             ELSE e.pages[1],
                                                 i |-> 1, combinedContent |-> <<>>])
                        /\ lpc' = "walk"
                        /\ UNCHANGED <<newContent, newFileCount, idx>>
                   ELSE Deliver(<<>>, stk)
                /\ UNCHANGED <<totalSize, readFiles, accepted>>

\* processFileEntry(Entries[id], path), called by the frames stk
ProcessEntry(id, path, stk) ==
    LET e == Entries[id]
        entryPath == entryPathOf(path, e.name)
    IN  /\ visited' = visited \cup {id}
        /\ IF entrySkipped(entryPath, closure.settings)
           THEN /\ Deliver(<<>>, stk)
                /\ UNCHANGED <<totalSize, readFiles, enumerated, accepted>>
           ELSE IF e.isFile
           THEN LET r == processFile(e, entryPath, closure.settings)
                IN  /\ Deliver(r.content, stk)
                    /\ totalSize' = totalSize + r.added
                    /\ readFiles' = IF r.read THEN readFiles \cup {id} ELSE readFiles
                    /\ accepted' = IF r.content # <<>>
                                   THEN Append(accepted, cleanPath(entryPath))
                                   ELSE accepted
                    /\ UNCHANGED enumerated
           ELSE /\ enumerated' = enumerated \cup {id}
                /\ IF e.readerOk
                   THEN /\ stack' = Append(stk, [entryPath |-> entryPath,
                                                 entries |-> flatten(e.pages),
                                                 i |-> 1, combinedContent |-> <<>>])
                        /\ lpc' = "walk"
                        /\ UNCHANGED <<newContent, newFileCount, idx>>
                   ELSE Deliver(<<>>, stk)
                /\ UNCHANGED <<totalSize, readFiles, accepted>>

\* FinishDrop without the check that some file was accepted
FinishDropUnchecked ==
    /\ content' = trim(newContent)
    /\ fileCount' = newFileCount
    /\ currentTokens' = estimateTokenCount(trim(newContent))
    /\ error' = IF dropLimitReached(closure) THEN ERR_TOKEN_LIMIT ELSE error
    /\ dropOutcome' = "ok"
    /\ UNCHANGED totalSize
    /\ processing' = FALSE /\ generating' = FALSE
    /\ lpc' = "idle"
    /\ UNCHANGED <<closure, entries, idx, newContent, newFileCount, stack>>
    /\ UNCHANGED <<visited, readFiles, enumerated, accepted>>

\* the end of handleDrop: the code after the loop, its catch and its finally
FinishDrop ==
    /\ IF newFileCount = 0
       THEN /\ error' = ERR_NO_VALID_FILES
            /\ content' = <<>> /\ fileCount' = 0 /\ totalSize' = 0 /\ currentTokens' = 0
            /\ dropOutcome' = "error"
       ELSE /\ content' = trim(newContent)
            /\ fileCount' = newFileCount
            /\ currentTokens' = estimateTokenCount(trim(newContent))
            /\ error' = IF dropLimitReached(closure) THEN ERR_TOKEN_LIMIT ELSE error
            /\ dropOutcome' = "ok"
            /\ UNCHANGED totalSize
    /\ processing' = FALSE /\ generating' = FALSE
    /\ lpc' = "idle"
    /\ UNCHANGED <<closure, entries, idx, newContent, newFileCount, stack>>
    /\ UNCHANGED <<visited, readFiles, enumerated, accepted>>

handleDrop ==
    /\ InputsRendered /\ NoCallExecuting
    /\ \E items \in Drops :
          /\ closure' = [settings |-> settings, tokenLimit |-> tokenLimit,
                         currentTokens |-> currentTokens]
          /\ entries' = items
          /\ idx' = 1 /\ newContent' = <<>> /\ newFileCount' = 0 /\ stack' = <<>>
          /\ visited' = {} /\ readFiles' = {} /\ enumerated' = {} /\ accepted' = <<>>
          /\ content' = <<>> /\ fileCount' = 0 /\ totalSize' = 0 /\ currentTokens' = 0
          /\ IF items = <<>>
             THEN /\ error' = ERR_NO_FILES_DROPPED
                  /\ processing' = FALSE /\ generating' = FALSE
                  /\ lpc' = "idle" /\ dropOutcome' = "error"
             ELSE /\ error' = Null
                  /\ processing' = TRUE /\ generating' = TRUE
                  /\ lpc' = "loop" /\ dropOutcome' = "none"
    /\ ForgetFetch /\ Remount
    /\ UNCHANGED <<cfgVars, rpc>>

\* one turn of the loop over the dropped entries, or the code after it
DropLoop ==
    /\ lpc = "loop"
    /\ IF idx > Len(entries)
       THEN FinishDrop
       ELSE IF dropLimitReached(closure)
       THEN FinishDrop
       ELSE /\ ProcessEntry(entries[idx], <<>>, <<>>)
            /\ UNCHANGED <<content, fileCount, currentTokens, processing, generating,
                           error, closure, entries, dropOutcome>>
    /\ UNCHANGED <<cfgVars, remoteVars>>

\* one turn of the innermost directory loop, or its return
WalkStep ==
    /\ lpc = "walk"
    /\ LET n == Len(stack)
           f == stack[n]
       IN  IF f.i > Len(f.entries)
           THEN /\ Deliver(f.combinedContent, SubSeq(stack, 1, n - 1))
                /\ UNCHANGED <<totalSize, visited, readFiles, enumerated, accepted>>
           ELSE ProcessEntry(f.entries[f.i], f.entryPath, stack)
    /\ UNCHANGED <<content, fileCount, currentTokens, processing, generating, error,
                   closure, entries, dropOutcome>>
    /\ UNCHANGED <<cfgVars, remoteVars>>

(* --------------------------- the remote fetcher ------------------------- *)

Digits == {"0", "1", "2", "3", "4", "5", "6", "7", "8", "9"}

\* the regex class \w
IsWordChar(c) ==
    c \in Range(UpperCaseLetters) \cup Range(LowerCaseLetters) \cup Digits \cup {"_"}

\* [\w-]+
IsOwnerName(s) == s # <<>> /\ \A i \in 1..Len(s) : IsWordChar(s[i]) \/ s[i] = "-"

\* [\w.-]+
IsRepoName(s) == s # <<>> /\ \A i \in 1..Len(s) : IsWordChar(s[i]) \/ s[i] \in {".", "-"}

GITHUB_PREFIX == <<"h", "t", "t", "p", "s", ":", "/", "/", "g", "i", "t", "h", "u", "b", ".", "c", "o", "m", "/">>

\* validateGitHubUrl with the pattern not anchored at the start of the url
validateGitHubUrlUnanchored(url) ==
    \E at \in 1..Len(url) :
        /\ StartsWithAt(url, at, <<"g", "i", "t", "h", "u", "b", ".", "c", "o", "m", "/">>)
        /\ LET segs == split(SubSeq(url, at + Len(<<"g", "i", "t", "h", "u", "b", ".", "c", "o", "m", "/">>), Len(url)), "/")
           IN  /\ Len(segs) >= 2
               /\ IsOwnerName(segs[1])
               /\ IsRepoName(segs[2])
               /\ \/ Len(segs) = 2
                  \/ /\ Len(segs) >= 4
                     /\ segs[3] = <<"t", "r", "e", "e">>
                     /\ segs[4] # <<>>
                     /\ \A k \in 5..Len(segs) : IsRepoName(segs[k])

\* /^https:\/\/github\.com\/[\w-]+\/[\w.-]+(?:\/tree\/[^/]+(?:\/[\w.-]+)*)?$/.test(url)
validateGitHubUrl(url) ==
    /\ StartsWithAt(url, 1, GITHUB_PREFIX)
    /\ LET segs == split(SubSeq(url, Len(GITHUB_PREFIX) + 1, Len(url)), "/")
       IN  /\ Len(segs) >= 2
           /\ IsOwnerName(segs[1])
           /\ IsRepoName(segs[2])
           /\ \/ Len(segs) = 2
              \/ /\ Len(segs) >= 4
                 /\ segs[3] = <<"t", "r", "e", "e">>
                 /\ segs[4] # <<>>
                 /\ \A k \in 5..Len(segs) : IsRepoName(segs[k])

RECURSIVE join(_, _)
join(segs, sep) ==
    IF segs = <<>> THEN <<>>
    ELSE IF Len(segs) = 1 THEN segs[1]
    ELSE segs[1] \o <<sep>> \o join(Tail(segs), sep)

GITHUB_HOST == <<"g", "i", "t", "h", "u", "b", ".", "c", "o", "m", "/">>

\* url.match(/github\.com\/([\w-]+)\/([\w.-]+)(?:\/tree\/([^/]+)(?:\/(.+))?)?/),
\* for urls in which an owner and a repository name follow the first
\* 'github.com/' (handleSubmit calls it on no other)
extractRepoInfo(url) ==
    LET hosts == {i \in 1..Len(url) : StartsWithAt(url, i, GITHUB_HOST)}
        at == CHOOSE i \in hosts : \A j \in hosts : i <= j
        segs == split(SubSeq(url, at + Len(GITHUB_HOST), Len(url)), "/")
    IN  [owner |-> segs[1],
         repo |-> segs[2],
         branch |-> IF Len(segs) >= 4 THEN segs[4] ELSE <<>>,
         path |-> IF Len(segs) >= 5 THEN join(SubSeq(segs, 5, Len(segs)), "/") ELSE <<>>]

DEFAULT_BRANCH == <<"m", "a", "i", "n">>

ERR_INVALID_URL == "Please enter a valid GitHub repository URL"
ERR_REPO_NOT_FOUND == "Repository not found"
ERR_REPO_FAILED == "Failed to fetch repository"
ERR_TREE_FAILED == "Failed to fetch repository contents"
ERR_ABORT == "AbortError"
ERR_NETWORK == "Failed to fetch"
ERR_CANCELLED == "Operation cancelled"
ERR_CANCELLED_BY_USER == "Operation cancelled by user"
ERR_SIGNAL_UNDEFINED == "signal is not defined"

\* the filter chain fetchRepoContents applies to treeData.tree
RECURSIVE filterTree(_, _, _)
filterTree(tree, basePath, cfg) ==
    IF tree = <<>> THEN <<>>
    ELSE LET item == Head(tree)
             keep == /\ item.type = "blob"
                     /\ (basePath = <<>> \/ StartsWithAt(item.path, 1, basePath))
                     /\ ~shouldSkipEntry(item.path, cfg.excludePatterns)
                     /\ isAllowedFileType(item.path, cfg.allowedFormats)
         IN  (IF keep THEN <<item>> ELSE <<>>) \o filterTree(Tail(tree), basePath, cfg)

\* the token check of the fetch loop
fetchLimitExceeded(cfg, tokensSoFar, contentTokens) ==
    cfg.tokenLimit > 0 /\ tokensSoFar + contentTokens > cfg.tokenLimit

\* the object fetchRepoContents returns
resultOf(r) ==
    [content |-> trim(r.combinedContent), fileCount |-> r.processedFiles,
     totalSize |-> r.totalSize, tokenCount |-> r.currentTokens]

\* handleGitHubProcess(p, res), with the effects the render after it runs:
\* the token-count effect of SAC when content changed, and the mount effect of
\* ContentEditor when the editor is rendered
handleGitHubProcess(p, res) ==
    /\ processing' = p
    /\ generating' = p
    /\ IF res.content # <<>>
       THEN /\ content' = res.content
            /\ fileCount' = res.fileCount
            /\ totalSize' = res.totalSize
            /\ currentTokens' = IF res.content # content \/ ~p
                                THEN estimateTokenCount(res.content)
                                ELSE res.tokenCount
       ELSE UNCHANGED <<content, fileCount, totalSize, currentTokens>>
    /\ UNCHANGED error

\* the catch block of fetchRepoContents: `signal` is declared by const inside
\* the try block and is not in scope here, so evaluating `signal?.aborted`
\* throws a ReferenceError whatever the caught error was
fetchRepoContentsCatch(message) == ERR_SIGNAL_UNDEFINED

\* Throw with a catch block in handleSubmit that does not call onProcess
ThrowLeavingProcessing(message, fs) ==
    LET rethrown == fetchRepoContentsCatch(message)
    IN  /\ thrown' = rethrown
        /\ fetchOutcome' = "thrown"
        /\ formState' = IF rethrown # ERR_CANCELLED_BY_USER
                        THEN [fs EXCEPT !.error = rethrown] ELSE fs
        /\ UNCHANGED uiVars
        /\ rpc' = "idle"
        /\ UNCHANGED <<result, abortControllerRef, aborted>>

\* fetchRepoContents throws (through its catch block) and handleSubmit's
\* catch block handles the error; fs is the form state at that moment
Throw(message, fs) ==
    LET rethrown == fetchRepoContentsCatch(message)
    IN  /\ thrown' = rethrown
        /\ fetchOutcome' = "thrown"
        /\ formState' = IF rethrown # ERR_CANCELLED_BY_USER
                        THEN [fs EXCEPT !.error = rethrown] ELSE fs
        /\ handleGitHubProcess(FALSE, NoResult)
        /\ rpc' = "idle"
        /\ UNCHANGED <<result, abortControllerRef, aborted>>

\* fetchRepoContents returns and handleSubmit publishes the result
Return(r, fs) ==
    /\ result' = resultOf(r)
    /\ fetchOutcome' = "returned"
    /\ handleGitHubProcess(FALSE, resultOf(r))
    /\ rpc' = "idle"
    /\ formState' = fs
    /\ UNCHANGED <<thrown, abortControllerRef, aborted>>

\* the top of the loop over files, entered with r.i the index of the next
\* file: the loop ends, or the aborted signal is seen, or the content request
\* for file r.i is issued
LoopTop(r, fs) ==
    /\ run' = r
    /\ IF r.i > Len(r.files) THEN Return(r, fs)
       ELSE IF aborted THEN Throw(ERR_CANCELLED, fs)
       ELSE /\ rpc' = "fetch"
            /\ formState' = fs
            /\ UNCHANGED <<uiVars, fetchOutcome, result, thrown, abortControllerRef, aborted>>

\* FileFailed letting the failure of one file end the whole call
FileFailedRethrows(r, fs) ==
    /\ run' = r
    /\ Throw(ERR_NETWORK, fs)

\* the content request of a file failed, or its payload could not be decoded:
\* `continue` on a response that is not ok, or the catch block of the loop body,
\* which rethrows only 'Operation cancelled'; r is the run at the next file
FileFailed(r, fs) == LoopTop(r, fs)

\* the form the user types into: a new mount once a call has ended
MountedForm == IF fetchOutcome # "none" THEN NoForm ELSE formState

handleUrlChange ==
    /\ InputsRendered /\ NoCallExecuting
    /\ \E url \in UrlInputs : formState' = [MountedForm EXCEPT !.url = url]
    /\ abortControllerRef' = Null
    /\ ForgetDrop /\ ForgetFetch
    /\ UNCHANGED <<uiVars, cfgVars, rpc>>

handleSubmit ==
    /\ InputsRendered /\ NoCallExecuting
    /\ MountedForm.url # <<>>
    /\ IF ~validateGitHubUrl(MountedForm.url)
       THEN /\ formState' = [MountedForm EXCEPT !.error = ERR_INVALID_URL,
                                                !.progress = NoProgress]
            /\ abortControllerRef' = Null
            /\ ForgetFetch
            /\ UNCHANGED <<uiVars, rpc>>
       ELSE LET repoInfo == extractRepoInfo(MountedForm.url)
            IN  /\ formState' = [MountedForm EXCEPT !.error = <<>>,
                                                    !.progress = NoProgress]
                /\ handleGitHubProcess(TRUE, NoResult)
                /\ abortControllerRef' = "controller"
                /\ aborted' = FALSE
                /\ run' = [NoRun EXCEPT !.settings = settings,
                                        !.owner = repoInfo.owner,
                                        !.repo = repoInfo.repo,
                                        !.branch = repoInfo.branch,
                                        !.basePath = repoInfo.path]
                /\ fetchOutcome' = "none"
                /\ result' = NoResult
                /\ thrown' = Null
                /\ rpc' = "meta"
    /\ ForgetDrop
    /\ UNCHANGED cfgVars

\* the response to the repository metadata request
RepoResponse ==
    /\ rpc = "meta"
    /\ IF aborted
       THEN Throw(ERR_ABORT, formState) /\ UNCHANGED run
       ELSE \E status \in (IF RepoExists(run.owner, run.repo)
                           THEN {200, 403, 0} ELSE {404, 0}) :
               IF status = 200
               THEN /\ run' = [run EXCEPT !.repoStatus = status, !.targetBranch =
                                 IF run.branch # <<>> THEN run.branch ELSE DEFAULT_BRANCH]
                    /\ rpc' = "tree"
                    /\ UNCHANGED <<uiVars, formState, abortControllerRef, aborted,
                                   fetchOutcome, result, thrown>>
               ELSE /\ Throw(IF status = 0 THEN ERR_NETWORK
                             ELSE IF status = 404 THEN ERR_REPO_NOT_FOUND
                             ELSE ERR_REPO_FAILED, formState)
                    /\ run' = [run EXCEPT !.repoStatus = status]
    /\ UNCHANGED <<cfgVars, dropVars, dropLog>>

\* TreeResponse leaving the progress as handleSubmit set it
TreeResponseWithoutTotal ==
    /\ rpc = "tree"
    /\ IF aborted
       THEN Throw(ERR_ABORT, formState) /\ UNCHANGED run
       ELSE \E status \in {200, 500, 0} :
               IF status = 200
               THEN LET files == filterTree(RepoTree, run.basePath, run.settings)
                    IN  LoopTop([run EXCEPT !.files = files, !.i = 1], formState)
               ELSE /\ Throw(IF status = 0 THEN ERR_NETWORK ELSE ERR_TREE_FAILED,
                             formState)
                    /\ UNCHANGED run
    /\ UNCHANGED <<cfgVars, dropVars, dropLog>>

\* the response to the tree request; a success enters the loop over files
TreeResponse ==
    /\ rpc = "tree"
    /\ IF aborted
       THEN Throw(ERR_ABORT, formState) /\ UNCHANGED run
       ELSE \E status \in {200, 500, 0} :
               IF status = 200
               THEN LET files == filterTree(RepoTree, run.basePath, run.settings)
                    IN  LoopTop([run EXCEPT !.files = files, !.i = 1],
                                [formState EXCEPT !.progress =
                                    [processed |-> 0, total |-> Len(files)]])
               ELSE /\ Throw(IF status = 0 THEN ERR_NETWORK ELSE ERR_TREE_FAILED,
                             formState)
                    /\ UNCHANGED run
    /\ UNCHANGED <<cfgVars, dropVars, dropLog>>

\* FileAccepted going on to the next file at once
FileAcceptedWithoutDelay(r, fs) == LoopTop([r EXCEPT !.i = r.i + 1], fs)

\* a file was appended: the progress is set and the call awaits the 50 ms
\* delay, r being the run with the file appended and fs the form
FileAccepted(r, fs) ==
    /\ run' = r
    /\ formState' = fs
    /\ rpc' = "delay"
    /\ UNCHANGED <<uiVars, fetchOutcome, result, thrown, abortControllerRef, aborted>>

\* atob(contentData.content): the host sends the file's text base64-encoded
atob(payload) == payload.text

\* the response to the content request of file run.i
FileResponse ==
    /\ rpc = "fetch"
    /\ LET file == run.files[run.i]
           next == [run EXCEPT !.i = run.i + 1]
       IN  IF aborted
           THEN FileFailed(next, formState)
           ELSE \E outcome \in {"ok", "notOk", "error"} :
                  IF outcome # "ok"
                  THEN FileFailed(next, formState)
                  ELSE LET fileContent == processFileContent(atob(file), run.settings)
                           contentTokens == estimateTokenCount(fileContent)
                           got == [run EXCEPT !.received = Append(@, file.path)]
                       IN  IF fetchLimitExceeded(run.settings, run.currentTokens,
                                                 contentTokens)
                           THEN /\ run' = got
                                /\ Return(got, formState)
                           ELSE FileAccepted(
                                    [got EXCEPT
                                      !.combinedContent =
                                          @ \o fragment(file.path, fileContent),
                                      !.processedFiles = @ + 1,
                                      !.totalSize = @ + Len(fileContent),
                                      !.currentTokens = @ + contentTokens],
                                    [formState EXCEPT !.progress =
                                      [processed |-> run.processedFiles + 1,
                                       total |-> Len(run.files)]])
    /\ UNCHANGED <<cfgVars, dropVars, dropLog>>

\* the 50 ms pacing delay after an accepted file elapses
DelayDone ==
    /\ rpc = "delay"
    /\ LoopTop([run EXCEPT !.i = run.i + 1], formState)
    /\ UNCHANGED <<cfgVars, dropVars, dropLog>>

\* the Stop button, rendered by GitHubInput while its processing prop is true;
\* aborted is the signal of the executing call, the signal of a controller
\* left over from a call that has ended is observed by nobody
handleCancel ==
    /\ processing \/ generating
    /\ abortControllerRef # Null
    /\ aborted' = (rpc # "idle")
    /\ abortControllerRef' = Null
    /\ handleGitHubProcess(FALSE, NoResult)
    /\ formState' = [formState EXCEPT !.progress = NoProgress]
    /\ UNCHANGED <<rpc, run, fetchOutcome, result, thrown>>
    /\ UNCHANGED <<cfgVars, dropVars, dropLog>>

(* ------------------------ timeout and the editor ----------------------- *)

\* the 30 s processing timeout fires
ProcessingTimeout ==
    /\ processing \/ generating
    /\ processing' = FALSE
    /\ generating' = FALSE
    /\ error' = ERR_TIMEOUT
    /\ UNCHANGED <<content, fileCount, totalSize, currentTokens>>
    /\ UNCHANGED <<cfgVars, dropVars, dropLog, remoteVars>>

\* texts the user leaves in the editor's textarea
EditTexts == { <<>>, <<"e", "d", "i", "t", "e", "d">> }

\* ContentEditor: the textarea's onChange and the effect on editableContent
EditContent ==
    /\ EditorRendered
    /\ \E text \in EditTexts :
          /\ content' = text
          /\ currentTokens' = estimateTokenCount(text)
    /\ UNCHANGED <<fileCount, totalSize, processing, generating, error>>
    /\ ForgetDrop /\ ForgetFetch /\ Remount
    /\ UNCHANGED <<cfgVars, rpc>>

\* ContentEditor: the Clear content button
ClearContent ==
    /\ EditorRendered
    /\ content' = <<>> /\ fileCount' = 0 /\ totalSize' = 0 /\ currentTokens' = 0
    /\ error' = Null
    /\ UNCHANGED <<processing, generating>>
    /\ ForgetDrop /\ ForgetFetch /\ Remount
    /\ UNCHANGED <<cfgVars, rpc>>

(* ----------------------------- specification --------------------------- *)

Next ==
    \/ handleTokenLimitChange
    \/ handleResetSettings
    \/ handleDrop
    \/ DropLoop
    \/ WalkStep
    \/ handleUrlChange
    \/ handleSubmit
    \/ RepoResponse
    \/ TreeResponse
    \/ FileResponse
    \/ DelayDone
    \/ handleCancel
    \/ ProcessingTimeout
    \/ EditContent
    \/ ClearContent

Spec == Init /\ [][Next]_vars
(* ----------------------- reading runs and results ----------------------- *)

HEADER_LINE == <<"/", "/", " ", "F", "i", "l", "e", ":", " ">>

\* positions in text where a '// File: <path>' line starts
HeaderPositions(text) ==
    {i \in 1..Len(text) :
        StartsWithAt(text, i, HEADER_LINE) /\ (i = 1 \/ text[i - 1] = "\n")}

\* the <path> of the header line that starts at position i
HeaderPathAt(text, i) ==
    LET from == i + Len(HEADER_LINE)
        ends == {j \in from..Len(text) : text[j] = "\n"} \cup {Len(text) + 1}
    IN  SubSeq(text, from, (CHOOSE j \in ends : \A k \in ends : j <= k) - 1)

\* the paths of the fragments text holds, in order
FragmentPaths(text) ==
    LET P == HeaderPositions(text)
        nth(k) == CHOOSE i \in P : Cardinality({j \in P : j < i}) = k - 1
    IN  [k \in 1..Cardinality(P) |-> HeaderPathAt(text, nth(k))]

FragmentCount(text) == Cardinality(HeaderPositions(text))

\* the directory that lists entry id, 0 for an entry no directory lists
ParentOf ==
    [id \in DOMAIN Entries |->
        LET holders == {d \in DOMAIN Entries : id \in Range(flatten(Entries[d].pages))}
        IN  IF holders = {} THEN 0 ELSE CHOOSE d \in holders : TRUE]

RECURSIVE AncestorsFrom(_)
AncestorsFrom(id) ==
    IF ParentOf[id] = 0 THEN {id} ELSE {id} \cup AncestorsFrom(ParentOf[id])

AncestorsOrSelf == [id \in DOMAIN Entries |-> AncestorsFrom(id)]

RECURSIVE PathFrom(_)
PathFrom(id) ==
    IF ParentOf[id] = 0 THEN Entries[id].name
    ELSE PathFrom(ParentOf[id]) \o <<"/">> \o Entries[id].name

\* the accumulated path under which a walk from its root reaches entry id
PathOfEntry == [id \in DOMAIN Entries |-> PathFrom(id)]

\* the lines of text: the maximal pieces that hold no newline
LinesOf(text) ==
    LET starts == {i \in 1..(Len(text) + 1) : i = 1 \/ text[i - 1] = "\n"}
        stop(i) == LET ends == {j \in i..Len(text) : text[j] = "\n"} \cup {Len(text) + 1}
                   IN  CHOOSE j \in ends : \A k \in ends : j <= k
    IN  {SubSeq(text, i, stop(i) - 1) : i \in starts}

\* the allow list each allowedFormats text denotes: its trimmed, lower-cased,
\* non-empty lines
AllowListOf ==
    [text \in SavedAllowedFormats \cup {DEFAULT_ACCEPTED_TYPES} |->
        {toLowerCase(trim(l)) : l \in LinesOf(text)} \ {<<>>}]

AllowList(cfg) == AllowListOf[cfg.allowedFormats]

\* the lower-cased text after the last '.' of name (all of name when it has no '.')
ExtensionOf(name) ==
    LET dots == {i \in 1..Len(name) : name[i] = "."}
        last == IF dots = {} THEN 0 ELSE CHOOSE i \in dots : \A j \in dots : j <= i
    IN  toLowerCase(SubSeq(name, last + 1, Len(name)))

\* name passes the allow list: the list is empty, or holds name's extension
ExtensionAllowed(name, allowList) ==
    allowList = {} \/ (<<".">> \o ExtensionOf(name)) \in allowList

Oversized(id) == Entries[id].isFile /\ Entries[id].size > MAX_FILE_SIZE

\* the files at or below the entries ids, reached under directory path, that
\* pass the skip, size and allow-list filters and can be read, in walk order
RECURSIVE ExpectedBelow(_, _, _, _)
ExpectedBelow(ids, path, cfg, allowList) ==
    IF ids = <<>> THEN <<>>
    ELSE LET e == Entries[Head(ids)]
             p == entryPathOf(path, e.name)
             here == IF shouldSkipEntry(p, cfg.excludePatterns) THEN <<>>
                     ELSE IF e.isFile
                     THEN IF /\ e.fileOk /\ e.textOk /\ e.size <= MAX_FILE_SIZE
                             /\ ExtensionAllowed(e.name, allowList)
                          THEN <<[id |-> Head(ids), path |-> p]>> ELSE <<>>
                     ELSE IF e.readerOk
                     THEN ExpectedBelow(flatten(e.pages), p, cfg, allowList)
                     ELSE <<>>
         IN  here \o ExpectedBelow(Tail(ids), path, cfg, allowList)

ExpectedFiles(ids, cfg) == ExpectedBelow(ids, <<>>, cfg, AllowList(cfg))

ExpectedPaths(ids, cfg) ==
    LET x == ExpectedFiles(ids, cfg) IN [k \in DOMAIN x |-> x[k].path]

\* the text the executing local run has accepted so far
RECURSIVE StackContent(_)
StackContent(stk) ==
    IF stk = <<>> THEN <<>> ELSE Head(stk).combinedContent \o StackContent(Tail(stk))

RunningContent == newContent \o StackContent(stack)

\* the text the host serves for the listed file at path
TextOfBlob(path) == (CHOOSE b \in Range(RepoTree) : b.path = path).text

LocalRunEnded == dropOutcome # "none"
RemoteRunReturned == fetchOutcome = "returned"

\* the reports by which a run says that the budget cut it short
TruncationReports == {ERR_TOKEN_LIMIT, ERR_NO_VALID_FILES}

(* ------------------------------ properties ---------------------------- *)

\* C1: a remote fetch that the user cancelled before it returned ends by
\* fetchRepoContents throwing, and nothing of that run is published through
\* onProcess(false, result)
C1_CancelledFetchThrows ==
    [][(rpc # "idle" /\ aborted /\ rpc' = "idle")
         => (fetchOutcome' = "thrown"
             /\ UNCHANGED <<content, fileCount, totalSize, currentTokens>>)]_vars

\* C2: with tokenLimit = -1 no run stops early: a local run visits every
\* dropped root and its content holds every file that passes the filters, a
\* remote run's content holds every file fetched successfully, and no token
\* limit outcome is reported
C2_UnlimitedNeverStops ==
    /\ (LocalRunEnded /\ closure.tokenLimit = -1) =>
          /\ \A k \in 1..Len(entries) : entries[k] \in visited
          /\ FragmentPaths(content) = ExpectedPaths(entries, closure.settings)
          /\ error # ERR_TOKEN_LIMIT
    /\ (RemoteRunReturned /\ run.settings.tokenLimit = -1) =>
          /\ FragmentPaths(result.content) = run.received
          /\ error # ERR_TOKEN_LIMIT

\* C3: in a local run with tokenLimit > 0, once the token estimate of the
\* fragments accepted so far is >= tokenLimit no further fragment is accepted,
\* and the run ends reported as truncated
C3_LocalStopsAtLimit ==
    [][(/\ lpc # "idle"
        /\ closure.tokenLimit > 0
        /\ estimateTokenCount(trim(RunningContent)) >= closure.tokenLimit)
         => (/\ accepted' = accepted
             /\ lpc' = "idle" => error' = ERR_TOKEN_LIMIT)]_vars

\* C4: the content a remote run with tokenLimit > 0 returns, headers
\* included, never has a token estimate greater than tokenLimit
C4_RemoteWithinBudget ==
    (RemoteRunReturned /\ run.settings.tokenLimit > 0) =>
        estimateTokenCount(result.content) <= run.settings.tokenLimit

\* C5: with tokenLimit = 1 and a first accepted file of more than one token,
\* a local or remote run ends with no fragment, fileCount 0 and a truncated
\* indication
C5_FirstFileOverBudget ==
    /\ LET x == ExpectedFiles(entries, closure.settings)
       IN  (/\ LocalRunEnded
            /\ closure.tokenLimit = 1
            /\ x # <<>>
            /\ estimateTokenCount(
                   processFileContent(Entries[x[1].id].text, closure.settings)) > 1)
             => (/\ FragmentCount(content) = 0
                 /\ fileCount = 0
                 /\ error \in TruncationReports)
    /\ (/\ RemoteRunReturned
        /\ run.settings.tokenLimit = 1
        /\ run.received # <<>>
        /\ estimateTokenCount(
               processFileContent(TextOfBlob(run.received[1]), run.settings)) > 1)
         => (/\ FragmentCount(result.content) = 0
             /\ result.fileCount = 0
             /\ error \in TruncationReports)

\* C6: after a successful run fileCount is the number of '// File:' fragments
\* in the content
C6_FileCountIsFragmentCount ==
    /\ dropOutcome = "ok" => fileCount = FragmentCount(content)
    /\ RemoteRunReturned => result.fileCount = FragmentCount(result.content)

\* C7: tokenCount is ceil(length(content)/4) of the final content: in the
\* result a remote run returns, and in the state after a local run and after
\* every edit or clear
C7_TokenCountOfContent ==
    /\ RemoteRunReturned => result.tokenCount = estimateTokenCount(result.content)
    /\ lpc = "idle" => currentTokens = estimateTokenCount(content)

\* the entries a walk prunes under each list of user skip patterns: those
\* with an entry at or above them whose accumulated path matches a pattern
PrunedUnder ==
    [pats \in SavedExcludePatterns |->
        LET matching == {a \in DOMAIN Entries : shouldSkipEntry(PathOfEntry[a], pats)}
        IN  {id \in DOMAIN Entries : AncestorsOrSelf[id] \cap matching # {}}]

PrunedEntries(pats) == PrunedUnder[pats]

RECURSIVE SumOfSizes(_)
SumOfSizes(ids) ==
    IF ids = {} THEN 0
    ELSE LET id == CHOOSE x \in ids : TRUE
         IN  Entries[id].size + SumOfSizes(ids \ {id})

\* C8: in a local walk an entry whose path matches a skip pattern is pruned
\* with everything below it: it is never enumerated or read, it gives no
\* fragment, and nothing at or below it counts in totalSize or fileCount
C8_SkippedSubtreePruned ==
    (lpc # "idle" \/ LocalRunEnded) =>
        LET pruned == PrunedEntries(closure.settings.excludePatterns)
            fragments == Range(accepted) \cup Range(FragmentPaths(content))
        IN  /\ \A id \in pruned :
                  /\ id \notin readFiles \cup enumerated
                  /\ PathOfEntry[id] \notin fragments
            /\ (lpc # "idle" \/ dropOutcome = "ok") =>
                  totalSize = SumOfSizes({id \in readFiles \ pruned : Entries[id].textOk})
            /\ dropOutcome = "ok" =>
                  fileCount = Cardinality({k \in 1..Len(entries) :
                                 \E id \in DOMAIN Entries \ pruned :
                                     /\ entries[k] \in AncestorsOrSelf[id]
                                     /\ PathOfEntry[id] \in Range(accepted)})

\* a local run that pruned a directory and still produced content
C8_Witness ==
    /\ dropOutcome = "ok"
    /\ content # <<>>
    /\ \E id \in visited \cap PrunedEntries(closure.settings.excludePatterns) :
          Entries[id].isDirectory

\* the listed items whose path matches a skip pattern, under each list of
\* user skip patterns
ListedSkippedUnder ==
    [pats \in SavedExcludePatterns |->
        {k \in DOMAIN RepoTree : shouldSkipEntry(RepoTree[k].path, pats)}]

\* C9: with a non-empty allow list every fragment of a local or remote result
\* belongs to a file whose lower-cased extension is in the list; with an empty
\* allow list no file is rejected for its extension
C9_AllowListFilters ==
    /\ dropOutcome = "ok" =>
          LET allowList == AllowList(closure.settings)
          IN  \A path \in Range(FragmentPaths(content)) : ExtensionAllowed(path, allowList)
    /\ RemoteRunReturned =>
          LET allowList == AllowList(run.settings)
          IN  \A path \in Range(FragmentPaths(result.content)) :
                  ExtensionAllowed(path, allowList)
    /\ (visited # {} /\ AllowList(closure.settings) = {}) =>
          LET pruned == PrunedEntries(closure.settings.excludePatterns)
          IN  \A id \in visited \ pruned :
                  (Entries[id].isFile /\ Entries[id].fileOk /\ ~Oversized(id))
                    => id \in readFiles
    /\ (run.i >= 1 /\ AllowList(run.settings) = {}) =>
          \A k \in DOMAIN RepoTree :
              (/\ RepoTree[k].type = "blob"
               /\ StartsWithAt(RepoTree[k].path, 1, run.basePath)
               /\ k \notin ListedSkippedUnder[run.settings.excludePatterns])
                => RepoTree[k] \in Range(run.files)

\* a local run under a non-empty allow list that met a file outside the list
\* and produced content
C9_Witness ==
    /\ dropOutcome = "ok"
    /\ content # <<>>
    /\ LET allowList == AllowList(closure.settings)
       IN  /\ allowList # {}
           /\ \E id \in visited \ PrunedEntries(closure.settings.excludePatterns) :
                 Entries[id].isFile /\ ~ExtensionAllowed(Entries[id].name, allowList)

\* C10: a file larger than MAX_FILE_SIZE is never read and gives no fragment,
\* and the step that meets it changes neither totalSize nor the file count,
\* reports no error, and moves the walk on to the next entry
C10_OversizedFileSkipped ==
    /\ [](\A id \in DOMAIN Entries :
            Oversized(id) =>
                /\ id \notin readFiles
                /\ PathOfEntry[id] \notin Range(accepted)
                /\ (LocalRunEnded => PathOfEntry[id] \notin Range(FragmentPaths(content))))
    /\ [][\A id \in DOMAIN Entries :
            (Oversized(id) /\ id \notin visited /\ id \in visited') =>
                /\ totalSize' = totalSize
                /\ newFileCount' = newFileCount
                /\ error' = error
                /\ IF stack = <<>>
                   THEN lpc' = "loop" /\ idx' = idx + 1
                   ELSE /\ lpc' = "walk"
                        /\ Len(stack') = Len(stack)
                        /\ stack'[Len(stack)].i = stack[Len(stack)].i + 1]_vars

\* a local run that met an oversized file inside a directory and accepted the
\* file listed after it
C10_Witness ==
    /\ dropOutcome = "ok"
    /\ \E id \in visited :
          /\ Oversized(id)
          /\ ParentOf[id] # 0
          /\ \E later \in readFiles :
                /\ ParentOf[later] = ParentOf[id]
                /\ PathOfEntry[later] \in Range(FragmentPaths(content))
                /\ later > id

\* the paths of all files at or below the entries ids, reached under
\* directory path, in depth-first order with siblings in enumeration order
RECURSIVE TraversalBelow(_, _)
TraversalBelow(ids, path) ==
    IF ids = <<>> THEN <<>>
    ELSE LET e == Entries[Head(ids)]
             p == entryPathOf(path, e.name)
         IN  (IF e.isFile THEN <<p>> ELSE TraversalBelow(flatten(e.pages), p))
             \o TraversalBelow(Tail(ids), path)

TraversalOf == [d \in Drops |-> TraversalBelow(d, <<>>)]

\* the paths of the blobs of the tree listing, in listing order
ListingOrder ==
    LET blobs == SelectSeq(RepoTree, LAMBDA item : item.type = "blob")
    IN  [k \in DOMAIN blobs |-> blobs[k].path]

\* the elements of a are elements of b and come in the order they have in b
InOrderOf(a, b) ==
    LET pos(x) == CHOOSE i \in DOMAIN b : b[i] = x
    IN  /\ Range(a) \subseteq Range(b)
        /\ \A i, j \in DOMAIN a : i < j => pos(a[i]) < pos(a[j])

\* C11: the fragments of the content come in source order: depth-first
\* traversal order of the dropped entries for a local run, which is the order
\* in which the files were accepted, and tree listing order for a remote run
C11_FragmentsInSourceOrder ==
    /\ lpc # "idle" => InOrderOf(accepted, TraversalOf[entries])
    /\ dropOutcome = "ok" =>
          /\ FragmentPaths(content) = accepted
          /\ InOrderOf(FragmentPaths(content), TraversalOf[entries])
    /\ RemoteRunReturned =>
          /\ FragmentPaths(result.content) = SelectSeq(run.received,
                LAMBDA path : path \in Range(FragmentPaths(result.content)))
          /\ InOrderOf(FragmentPaths(result.content), ListingOrder)

\* a local run whose content holds fragments of a file dropped directly and of
\* files inside a dropped directory, and a remote result of several fragments
C11_Witness ==
    \/ /\ dropOutcome = "ok"
       /\ Len(entries) = 2
       /\ Len(FragmentPaths(content)) >= 3
    \/ /\ RemoteRunReturned
       /\ Len(FragmentPaths(result.content)) >= 3

\* the entries whose reading fails: files whose entry or text cannot be read,
\* directories whose enumeration fails
ReadFails(id) ==
    IF Entries[id].isFile THEN ~Entries[id].fileOk \/ ~Entries[id].textOk
    ELSE ~Entries[id].readerOk

\* C12: a read error on a file or on a directory's enumeration does not end
\* the walk and reports nothing; a run that went through all its root
\* entries holds every file that passes the filters and can be read, those
\* in a directory that cannot be enumerated left out
C12_ReadErrorSkipsOnlyThatEntry ==
    /\ []((LocalRunEnded /\ \A k \in 1..Len(entries) : entries[k] \in visited) =>
            FragmentPaths(content) = ExpectedPaths(entries, closure.settings))
    /\ [][\A id \in DOMAIN Entries :
            (ReadFails(id) /\ id \notin visited /\ id \in visited') =>
                /\ lpc' \in {"loop", "walk"}
                /\ dropOutcome' = "none"
                /\ error' = error
                /\ accepted' = accepted
                /\ totalSize' = totalSize]_vars

\* a local run that met an unreadable file and a directory that cannot be
\* enumerated, and whose content holds a file listed after each of them
C12_Witness ==
    /\ dropOutcome = "ok"
    /\ \E id \in readFiles :
          /\ ~Entries[id].textOk
          /\ \E later \in readFiles :
                /\ ParentOf[later] = ParentOf[id] /\ later > id
                /\ PathOfEntry[later] \in Range(FragmentPaths(content))
    /\ \E id \in enumerated :
          /\ ~Entries[id].readerOk
          /\ \E later \in readFiles :
                /\ ParentOf[later] = ParentOf[id]
                /\ PathOfEntry[later] \in Range(FragmentPaths(content))

\* the content request of the current file of a remote run that was not
\* cancelled ends without a usable payload
FileFetchFails ==
    /\ rpc = "fetch"
    /\ ~aborted
    /\ run'.i = run.i + 1
    /\ run'.received = run.received

\* C13: in a remote run that was not cancelled, a file whose content request
\* fails or whose payload cannot be decoded is skipped and nothing else: the
\* call does not throw, what was collected is kept, the next listed file is
\* requested, or, after the last file, the result is returned; a returned
\* result holds the fragments of the files received, the one that exceeded
\* the budget excepted
C13_FailedFileSkipped ==
    /\ [][FileFetchFails =>
            /\ fetchOutcome' # "thrown"
            /\ thrown' = thrown
            /\ run'.combinedContent = run.combinedContent
            /\ run'.processedFiles = run.processedFiles
            /\ IF run.i < Len(run.files)
               THEN rpc' = "fetch" /\ fetchOutcome' = "none"
               ELSE /\ fetchOutcome' = "returned"
                    /\ FragmentPaths(result'.content) =
                          FragmentPaths(run.combinedContent)
                    /\ result'.fileCount = run.processedFiles]_vars
    /\ [](RemoteRunReturned =>
            /\ FragmentPaths(result.content) =
                  SubSeq(run.received, 1, run.processedFiles)
            /\ Len(run.received) <= run.processedFiles + 1)

\* a remote run that was not cancelled returned a result with fragments
\* although the request of an earlier and of a later listed file failed
C13_Witness ==
    /\ RemoteRunReturned
    /\ ~aborted
    /\ result.content # <<>>
    /\ \E k \in DOMAIN run.files :
          /\ run.files[k].path \in Range(FragmentPaths(result.content))
          /\ \E j \in 1..(k - 1) : run.files[j].path \notin Range(run.received)
          /\ \E j \in (k + 1)..Len(run.files) : run.files[j].path \notin Range(run.received)

\* C14: a remote run whose metadata request answers 404 ends by throwing
\* 'Repository not found', which the form shows as the run's error, and no
\* file content was requested
C14_NotFoundReported ==
    (fetchOutcome = "thrown" /\ run.repoStatus = 404) =>
        /\ thrown = ERR_REPO_NOT_FOUND
        /\ formState.error = ERR_REPO_NOT_FOUND
        /\ run.i = 0
        /\ run.received = <<>>

\* the url names the host over https and an owner and a repository after it
HasExpectedShape(url) ==
    /\ Len(url) > Len(GITHUB_PREFIX)
    /\ SubSeq(url, 1, Len(GITHUB_PREFIX)) = GITHUB_PREFIX
    /\ LET segs == split(SubSeq(url, Len(GITHUB_PREFIX) + 1, Len(url)), "/")
       IN  /\ Len(segs) \in {2} \cup (4..Len(url))
           /\ \A k \in DOMAIN segs : segs[k] # <<>>
           /\ Len(segs) >= 4 => segs[3] = <<"t", "r", "e", "e">>

\* the form shows the validation error
ShowsInvalidUrl(fs) == fs.error = ERR_INVALID_URL

\* C15: a fetch starts on urls of the expected shape only; the submit of any
\* other url shows the validation error and starts nothing: no request is
\* issued, onProcess is not called, and processing, generating, content,
\* fileCount, totalSize and the token count stay as they were
C15_InvalidUrlStartsNothing ==
    /\ [][(rpc = "idle" /\ rpc' # "idle") => HasExpectedShape(formState'.url)]_vars
    /\ [][(~ShowsInvalidUrl(formState) /\ ShowsInvalidUrl(formState')) =>
            /\ ~HasExpectedShape(formState'.url)
            /\ rpc = "idle" /\ rpc' = "idle"
            /\ abortControllerRef' = Null
            /\ fetchOutcome' = "none"
            /\ UNCHANGED <<content, fileCount, totalSize, currentTokens,
                           processing, generating, error>>]_vars

\* the validation error is shown for a url without the scheme while a
\* content of an earlier run is kept
C15_Witness ==
    /\ formState.error = ERR_INVALID_URL
    /\ ~HasExpectedShape(formState.url)
    /\ rpc = "idle"
    /\ fileCount > 0

\* a step at which a run ends with a run-level error: the timeout fires, a
\* local run ends in the catch block, fetchRepoContents throws, or the user
\* cancels the fetch
RunLevelError ==
    \/ (processing \/ generating) /\ ~processing' /\ ~generating' /\ error' = ERR_TIMEOUT
    \/ dropOutcome = "none" /\ dropOutcome' = "error"
    \/ fetchOutcome = "none" /\ fetchOutcome' = "thrown"
    \/ rpc # "idle" /\ ~aborted /\ aborted'

\* C16: when a run ends with a run-level error the counters are reset:
\* content is empty and fileCount, totalSize and the token count are 0
C16_RunErrorResetsCounters ==
    [][RunLevelError =>
          /\ content' = <<>>
          /\ fileCount' = 0
          /\ totalSize' = 0
          /\ currentTokens' = 0]_vars

\* the timeout has fired for the run that is executing
TimedOutRun ==
    /\ lpc # "idle" \/ rpc # "idle"
    /\ ~processing /\ ~generating
    /\ error = ERR_TIMEOUT

\* C17: a run for which the timeout has fired does not set content,
\* fileCount, totalSize or the token count afterwards
C17_TimedOutRunPublishesNothing ==
    [][TimedOutRun =>
          UNCHANGED <<content, fileCount, totalSize, currentTokens>>]_vars

\* the error reports of a local run that accepted nothing
ReportsEmpty == error = ERR_NO_VALID_FILES \/ error = ERR_NO_FILES_DROPPED

C19_LocalRunCancellable ==
    (lpc # "idle" /\ processing) =>
        (abortControllerRef # Null /\ ENABLED handleCancel)

\* C20: the transformation of a file's text is idempotent: applied with the
\* flags of the run to the text it produced for a file the run read, it
\* returns that text unchanged
C20_TransformIdempotent ==
    \A id \in readFiles :
        LET once == processFileContent(Entries[id].text, closure.settings)
        IN  processFileContent(once, closure.settings) = once

\* the letter case variants of a text: all upper case, all lower case, and
\* with the case of every letter swapped
toUpperChar(c) ==
    IF \E i \in 1..26 : LowerCaseLetters[i] = c
    THEN UpperCaseLetters[CHOOSE i \in 1..26 : LowerCaseLetters[i] = c]
    ELSE c

toUpperCase(s) == [i \in 1..Len(s) |-> toUpperChar(s[i])]

swapCase(s) ==
    [i \in 1..Len(s) |-> IF toUpperChar(s[i]) = s[i] THEN toLowerChar(s[i])
                         ELSE toUpperChar(s[i])]

CaseVariants(s) == {s, toUpperCase(s), toLowerCase(s), swapCase(s)}

\* the pattern lists that differ from pats in letter case only
PatternCaseVariants(pats) ==
    { [i \in 1..Len(pats) |-> toUpperCase(pats[i])],
      [i \in 1..Len(pats) |-> toLowerCase(pats[i])],
      [i \in 1..Len(pats) |-> swapCase(pats[i])] }

\* the paths the matcher is applied to: those of the local entries and those
\* of the tree listing
MatchedPaths ==
    {PathOfEntry[id] : id \in DOMAIN Entries} \cup {RepoTree[k].path : k \in DOMAIN RepoTree}

\* for each list of user patterns, the paths on which the result of
\* shouldSkipEntry is the same for all case variants of path and patterns
CaseBlindUnder ==
    [pats \in SavedExcludePatterns |->
        {p \in MatchedPaths :
            \A q \in CaseVariants(p) : \A ps \in PatternCaseVariants(pats) \cup {pats} :
                shouldSkipEntry(q, ps) = shouldSkipEntry(p, pats)}]

\* C21: shouldSkipEntry is case-insensitive: on every path a run applied it
\* to, with the patterns of that run, changing the letter case of the path or
\* of the patterns does not change the result; the function reads its
\* arguments only, so a second call returns the same result
C21_SkipIsCaseBlind ==
    /\ \A id \in visited :
          PathOfEntry[id] \in CaseBlindUnder[closure.settings.excludePatterns]
    /\ rpc \notin {"idle", "meta", "tree"} =>
          \A k \in DOMAIN RepoTree :
              RepoTree[k].path \in CaseBlindUnder[run.settings.excludePatterns]

\* a walk visited an entry whose path differs in letter case from the user
\* pattern that makes the walk skip it
C21_Witness ==
    /\ \E id \in visited :
          /\ shouldSkipEntry(PathOfEntry[id], closure.settings.excludePatterns)
          /\ ~shouldSkipEntry(PathOfEntry[id], <<>>)
          /\ id \notin enumerated \cup readFiles
    /\ closure.settings.excludePatterns # <<>>

\* the least integer k with 4 * k >= n
CeilOfQuarter(n) == CHOOSE k \in 0..n : 4 * k >= n /\ (k = 0 \/ 4 * (k - 1) < n)

\* the remote fetcher accepts the file it received
RemoteAccepts == rpc = "fetch" /\ run'.processedFiles = run.processedFiles + 1

\* C22: the token estimate of a text is the length of the text divided by 4
\* and rounded up, 0 for the empty text: the displayed count of the content
\* shown in the editor and of a content made empty there, and the estimate
\* the remote budget adds for an accepted file, whose length is what the run
\* adds to its size total
C22_EstimateIsCeilOfQuarter ==
    /\ [](EditorRendered => currentTokens = CeilOfQuarter(Len(content)))
    /\ [][(EditorRendered /\ content' = <<>> /\ ~processing') => currentTokens' = 0]_vars
    /\ [][RemoteAccepts =>
            run'.currentTokens - run.currentTokens =
                CeilOfQuarter(run'.totalSize - run.totalSize)]_vars

\* a remote run accepted files whose lengths are not multiples of 4, and the
\* editor shows a content whose length is not a multiple of 4
C22_Witness ==
    /\ RemoteRunReturned
    /\ run.processedFiles >= 2
    /\ run.currentTokens * 4 > run.totalSize + 3
    /\ EditorRendered
    /\ Len(content) % 4 # 0

\* the local walker's decision on a file reached at path: the skip check on
\* the accumulated path of every directory above it and on its own path, the
\* extension check on its name
LocalWalkerAccepts(path, cfg) ==
    LET segs == split(path, "/")
    IN  /\ \A n \in 1..Len(segs) :
              ~shouldSkipEntry(join(SubSeq(segs, 1, n), "/"), cfg.excludePatterns)
        /\ isAllowedFileType(segs[Len(segs)], cfg.allowedFormats)

\* the listed blobs the local walker would accept, per filter configuration
LocallyAccepted ==
    [pats \in SavedExcludePatterns |->
        [formats \in SavedAllowedFormats \cup {DEFAULT_ACCEPTED_TYPES} |->
            {k \in DOMAIN RepoTree :
                /\ RepoTree[k].type = "blob"
                /\ LocalWalkerAccepts(RepoTree[k].path,
                      [excludePatterns |-> pats, allowedFormats |-> formats])}]]

\* C23: the remote listing filter keeps a listed file below the base path
\* exactly when the local walker accepts a file at that path under the same
\* skip patterns and allow list
C23_SameFilter ==
    rpc \in {"fetch", "delay"} =>
        \A k \in DOMAIN RepoTree :
            (RepoTree[k].type = "blob" /\
             (run.basePath = <<>> \/ StartsWithAt(RepoTree[k].path, 1, run.basePath))) =>
                (RepoTree[k] \in Range(run.files) <=>
                 k \in LocallyAccepted[run.settings.excludePatterns][run.settings.allowedFormats])

\* the content request of file k of the listing is issued
RequestIssued(k) == rpc' = "fetch" /\ run'.i = k /\ (rpc # "fetch" \/ run.i # k)

\* C24: the remote fetcher requests one file at a time, in listing order: the
\* request of the first file follows the tree response, the request of any
\* other file follows the handling of the response of the file before it,
\* after the delay when that file was accepted; while a request is in flight
\* every earlier file has been handled and no later one was received, and
\* while the delay runs no request is in flight
C24_OneRequestAtATime ==
    /\ [][\A k \in 1..Len(RepoTree) :
            RequestIssued(k) =>
                \/ k = 1 /\ rpc = "tree"
                \/ /\ k > 1 /\ rpc = "fetch" /\ run.i = k - 1
                   /\ run'.processedFiles = run.processedFiles
                \/ /\ k > 1 /\ rpc = "delay" /\ run.i = k - 1
                   /\ run'.processedFiles = run.processedFiles]_vars
    /\ [][(rpc = "fetch" /\ run'.processedFiles # run.processedFiles) =>
            (rpc' = "delay" /\ run'.i = run.i)]_vars
    /\ [](rpc = "fetch" =>
            /\ run.i \in DOMAIN run.files
            /\ \A j \in run.i..Len(run.files) : run.files[j].path \notin Range(run.received))
    /\ [](rpc = "delay" =>
            /\ run.i \in DOMAIN run.files
            /\ run.received[Len(run.received)] = run.files[run.i].path)

\* the request of a third file is in flight after an accepted and a failed one
C24_Witness ==
    /\ rpc = "fetch"
    /\ run.i = 3
    /\ run.processedFiles = 1
    /\ Len(run.received) = 1

\* a fetchRepoContents call executes and the user has not cancelled it
RemoteRunActive == rpc # "idle" /\ ~aborted

\* C25: the progress of a remote run that executes and was not cancelled:
\* processed <= total in every state; when the loop over the files is
\* entered, processed is 0 and total is the number of files the listing
\* filter kept, and total stays that number; processed never decreases and
\* grows by one exactly when a file is accepted
C25_ProgressConsistent ==
    /\ [](rpc # "idle" =>
            /\ 0 <= formState.progress.processed
            /\ formState.progress.processed <= formState.progress.total)
    /\ []((RemoteRunActive /\ rpc \in {"fetch", "delay"}) =>
            /\ formState.progress.total = Len(run.files)
            /\ formState.progress.processed = run.processedFiles)
    /\ [][(RemoteRunActive /\ rpc = "tree" /\ rpc' = "fetch") =>
            formState'.progress = [processed |-> 0, total |-> Len(run'.files)]]_vars
    /\ [][(RemoteRunActive /\ rpc' # "idle" /\ ~aborted') =>
            /\ formState'.progress.processed - formState.progress.processed =
                  run'.processedFiles - run.processedFiles
            /\ run'.processedFiles - run.processedFiles \in {0, 1}
            /\ (rpc \in {"fetch", "delay"} =>
                  formState'.progress.total = formState.progress.total)]_vars

\* the progress of a run that was not cancelled shows two files accepted out
\* of three while the third is requested
C25_Witness ==
    /\ RemoteRunActive
    /\ rpc = "fetch"
    /\ formState.progress = [processed |-> 2, total |-> 3]

\* the children the reader of directory id returns, page after page
ChildrenOf(id) == flatten(Entries[id].pages)

\* the directories whose enumeration has ended: enumerated, and no frame of
\* the stack is theirs
EnumerationEnded ==
    {id \in enumerated :
        \A n \in 1..Len(stack) : stack[n].entryPath # PathOfEntry[id]}

\* what is left of the walk: two for every entry not yet visited, one for
\* every directory being processed, one for the executing call
WorkLeft ==
    2 * (Len(Entries) - Cardinality(visited)) + Len(stack)
        + (IF lpc = "idle" THEN 0 ELSE 1)

\* a step of the executing handleDrop call
WalkerSteps == lpc # "idle" /\ <<lpc, idx, stack, visited>>' # <<lpc, idx, stack, visited>>

BlankPatterns == { <<>>, <<" ">>, <<"\t", " ">> }

\* pats without its blank patterns
WithoutBlanks(pats) == SelectSeq(pats, LAMBDA p : trim(p) # <<>>)

\* pats with blank patterns put before, between and behind its patterns
WithBlanks(pats) ==
    { <<b>> \o pats : b \in BlankPatterns } \cup
    { pats \o <<b, c>> : b, c \in BlankPatterns } \cup
    { IF pats = <<>> THEN <<b>> ELSE <<Head(pats), b>> \o Tail(pats) : b \in BlankPatterns }

\* for each list of user patterns, the paths on which shouldSkipEntry gives
\* the same result whatever blank patterns the list holds
BlankBlindUnder ==
    [pats \in SavedExcludePatterns |->
        {p \in MatchedPaths :
            \A ps \in WithBlanks(pats) \cup {WithoutBlanks(pats)} :
                shouldSkipEntry(p, ps) = shouldSkipEntry(p, pats)}]

\* C27: blank skip patterns are discarded before matching: on every path a
\* run applied shouldSkipEntry to, with the patterns of that run, the result
\* is the same with the blank patterns of the list taken out and with more
\* of them put in
C27_BlankPatternsIgnored ==
    /\ \A id \in visited :
          PathOfEntry[id] \in BlankBlindUnder[closure.settings.excludePatterns]
    /\ rpc \in {"fetch", "delay"} =>
          \A k \in DOMAIN RepoTree :
              RepoTree[k].path \in BlankBlindUnder[run.settings.excludePatterns]

\* a run whose pattern list holds a blank pattern accepted a file
C27_Witness ==
    /\ dropOutcome = "ok"
    /\ \E k \in DOMAIN closure.settings.excludePatterns :
          trim(closure.settings.excludePatterns[k]) = <<>>
    /\ accepted # <<>>

\* the sum of the sizes of the listed files at paths
RECURSIVE SumOfListedSizes(_)
SumOfListedSizes(paths) ==
    IF paths = {} THEN 0
    ELSE LET p == CHOOSE x \in paths : TRUE
             k == CHOOSE j \in DOMAIN RepoTree : RepoTree[j].path = p
         IN  Len(atob(RepoTree[k])) + SumOfListedSizes(paths \ {p})

\* C28: after a successful run totalSize is the sum of the sizes of the files
\* whose fragments the content of the run holds
C28_TotalSizeOfFragments ==
    /\ dropOutcome = "ok" =>
          totalSize = SumOfSizes({id \in DOMAIN Entries :
                          /\ Entries[id].isFile
                          /\ PathOfEntry[id] \in Range(FragmentPaths(content))})
    /\ (RemoteRunReturned /\ result.content # <<>>) =>
          /\ result.totalSize = SumOfListedSizes(Range(FragmentPaths(result.content)))
          /\ totalSize = result.totalSize

\* what is left of a fetchRepoContents call: two for every listed file not
\* yet handled, and the requests and the delay that come before them
FetchLeft ==
    IF rpc = "idle" THEN 0
    ELSE IF rpc = "meta" THEN 2 * Len(RepoTree) + 4
    ELSE IF rpc = "tree" THEN 2 * Len(RepoTree) + 3
    ELSE IF rpc = "fetch" THEN 2 * (Len(RepoTree) - run.i) + 2
    ELSE 2 * (Len(RepoTree) - run.i) + 1

\* a step of the executing fetchRepoContents call
FetchSteps == rpc # "idle" /\ <<rpc, run.i>>' # <<rpc, run.i>>

\* a run is started, a run ends
RunStarts == (lpc = "idle" /\ lpc' # "idle") \/ (rpc = "idle" /\ rpc' # "idle")
RunEnds == (lpc # "idle" /\ lpc' = "idle") \/ (rpc # "idle" /\ rpc' = "idle")

\* C29: a run that is started leaves the processing state: a started run has
\* processing and generating set; every step of the executing call lessens
\* what is left of it, so the call ends; the step that ends it, whatever the
\* outcome, clears processing and generating; and both stay cleared while no
\* call executes
C29_RunLeavesProcessing ==
    /\ [][RunStarts => (processing' /\ generating')]_vars
    /\ [][RunEnds => (~processing' /\ ~generating')]_vars
    /\ [](NoCallExecuting => (~processing /\ ~generating))
    /\ [](processing <=> generating)
    /\ [](FetchLeft >= 0 /\ WorkLeft >= 0)
    /\ [][FetchSteps => FetchLeft' < FetchLeft]_vars
    /\ [][WalkerSteps => WorkLeft' < WorkLeft]_vars

\* a remote run has ended by throwing, not cancelled and not timed out, and
\* processing is cleared
C29_Witness ==
    /\ fetchOutcome = "thrown"
    /\ rpc = "idle"
    /\ ~aborted
    /\ ~processing /\ ~generating
    /\ ~(error = ERR_TIMEOUT)

\* C30: whenever no run is in progress and the content is empty, fileCount
\* and totalSize are 0
C30_EmptyContentZeroCounters ==
    (NoCallExecuting /\ ~processing /\ ~generating /\ content = <<>>) =>
        (fileCount = 0 /\ totalSize = 0)


====
